---- MODULE Spec2Model ----
(***************************************************************************)
(* SessionSummary (session summarization and diff ordering).               *)
(*                                                                         *)
(* Every summarize call is an invocation p.  The code runs on one event    *)
(* loop: the code between two awaits is one atomic action, and every       *)
(* await is a point where any other invocation may run.  Collaborators     *)
(* (message history, snapshot diff, storage, model resolver, gateway,      *)
(* session record, bus) are the environment: their results are drawn from  *)
(* small sets when the await resolves.                                     *)
(***************************************************************************)
EXTENDS Integers, Sequences, FiniteSets, TLC

\* ---------------------------------------------------------------- bounds
NumInv == 2
MaxLines == 2
NumOps == 2

Inv == 1..NumInv
Sessions == {"s1", "s2"}
None == 0

\* A non-finite number (NaN, Infinity) of a FileDiff's additions/deletions.
NaN == -1

\* ------------------------------------------------------------ sequences
Range(s) == {s[i] : i \in 1..Len(s)}

Min(S) == CHOOSE x \in S : \A y \in S : x <= y

Max(S) == CHOOSE x \in S : \A y \in S : x >= y

RECURSIVE SeqSum(_)
SeqSum(s) == IF s = <<>> THEN 0 ELSE Head(s) + SeqSum(Tail(s))

Distinct(s) == \A i, j \in 1..Len(s) : i # j => s[i] # s[j]

\* ------------------------------------------------------------ FileDiff
\* Paths and lines of text are sequences of characters.
FileA == <<"a">>
FileB == <<"b">>
FileC == <<"c">>
\* a path that itself looks like a numbered list item: "1. n"
FileN == <<"1", ".", " ", "n">>

Diff(f, add, del, bef, aft) ==
    [file |-> f, additions |-> add, deletions |-> del, before |-> bef, after |-> aft]

FilesOf(diffs) == [i \in 1..Len(diffs) |-> diffs[i].file]

DistinctFiles(diffs) == Distinct(FilesOf(diffs))

\* const safe = (n) => (Number.isFinite(n) ? n : 0)
safe(n) == IF n = NaN THEN 0 ELSE n

\* mutant: only the empty diff set returns at once
trivialOnlyEmpty(diffs) == Len(diffs) = 0

\* if (input.diffs.length <= 1) return input.diffs
trivial(diffs) == Len(diffs) <= 1

\* mutant: the rows are joined without being sorted
sigUnsorted(diffs) ==
    [i \in 1..Len(diffs) |->
        <<diffs[i].file, safe(diffs[i].additions), safe(diffs[i].deletions),
          Len(diffs[i].before), Len(diffs[i].after)>>]

\* sig: the sorted, joined "file:adds:dels:before.length:after.length" rows.
\* Two joined strings are equal exactly when the rows are the same bag; with
\* the pairwise-distinct files of a diff set the bag is the set of rows.
sig(diffs) ==
    {<<d.file, safe(d.additions), safe(d.deletions), Len(d.before), Len(d.after)>> :
        d \in Range(diffs)}

\* new Map(input.diffs.map((d) => [d.file, d])): a later entry of the same
\* file replaces an earlier one.
MapGet(diffs, f) ==
    LET I == {i \in 1..Len(diffs) : diffs[i].file = f}
    IN  IF I = {} THEN <<>> ELSE <<diffs[Max(I)]>>

RECURSIVE FlatMapGet(_, _)
FlatMapGet(diffs, fs) ==
    IF fs = <<>> THEN <<>>
    ELSE MapGet(diffs, Head(fs)) \o FlatMapGet(diffs, Tail(fs))

\* mutant: the current diffs that were stored, in input order
cachedInInputOrder(prev, diffs) ==
    SelectSeq(diffs, LAMBDA d : d.file \in Range(FilesOf(prev)))

\* prev.map((d) => map.get(d.file)).filter((d) => !!d)
cached(prev, diffs) == FlatMapGet(diffs, FilesOf(prev))

\* mutant: the comparison with the stored ordering's length is left out
stableCountOnly(prev, diffs) == Len(cached(prev, diffs)) = Len(diffs)

\* mutant: the comparison with the input's length is left out
stableIgnoresInput(prev, diffs) == Len(cached(prev, diffs)) = Len(prev)

\* cached.length === input.diffs.length && cached.length === prev.length
stable(prev, diffs) ==
    /\ Len(cached(prev, diffs)) = Len(diffs)
    /\ Len(cached(prev, diffs)) = Len(prev)

\* if (stable && sig(prev) === sig(input.diffs)) return stable
fastPath(prev, diffs) == stable(prev, diffs) /\ sig(prev) = sig(diffs)

\* mutant: the fallback is the stored ordering as it was read
fallbackIsStored(prev, diffs) == IF prev # <<>> THEN prev ELSE diffs

\* mutant: the fallback is always the raw input
fallbackIsInput(prev, diffs) == diffs

\* const fallback = stable ?? input.diffs
fallback(prev, diffs) == IF stable(prev, diffs) THEN cached(prev, diffs) ELSE diffs

\* ---------------------------------------------------- parsing the text
IsSpace(c) == c \in {" ", "\t"}

IsDigit(c) == c \in {"1", "2"}

\* the class of quote characters; the back quote is written "^" here
IsQuote(c) == c \in {"'", "\"", "^"}

RECURSIVE TrimLeft(_)
TrimLeft(s) == IF s # <<>> /\ IsSpace(Head(s)) THEN TrimLeft(Tail(s)) ELSE s

RECURSIVE TrimRight(_)
TrimRight(s) ==
    IF s # <<>> /\ IsSpace(s[Len(s)]) THEN TrimRight(SubSeq(s, 1, Len(s) - 1)) ELSE s

\* String.prototype.trim
Trim(s) == TrimRight(TrimLeft(s))

\* .replace(/^[-*]\s+/, "")
StripBullet(s) ==
    IF Len(s) >= 2 /\ s[1] \in {"-", "*"} /\ IsSpace(s[2]) THEN TrimLeft(Tail(s)) ELSE s

RECURSIVE DropDigits(_)
DropDigits(s) == IF s # <<>> /\ IsDigit(Head(s)) THEN DropDigits(Tail(s)) ELSE s

\* .replace(/^\d+[.)]\s+/, "")
StripNumber(s) ==
    LET r == DropDigits(s)
    IN  IF /\ Len(r) < Len(s)
           /\ Len(r) >= 2
           /\ r[1] \in {".", ")"}
           /\ IsSpace(r[2])
        THEN TrimLeft(Tail(r))
        ELSE s

\* .replace(/^[quote]/, ""): one leading single, double or back quote
StripLeadQuote(s) == IF s # <<>> /\ IsQuote(Head(s)) THEN Tail(s) ELSE s

\* .replace(/[quote or comma]$/, ""): one trailing quote or comma
StripTrailQuote(s) ==
    IF s # <<>> /\ (IsQuote(s[Len(s)]) \/ s[Len(s)] = ",")
    THEN SubSeq(s, 1, Len(s) - 1)
    ELSE s

\* line.includes("\t") ? (line.split("\t")[0] ?? "") : line
BeforeTab(s) ==
    LET I == {i \in 1..Len(s) : s[i] = "\t"}
    IN  IF I = {} THEN s ELSE SubSeq(s, 1, Min(I) - 1)

\* the two .map steps applied to one trimmed, non-empty line
CleanLine(line) ==
    Trim(BeforeTab(Trim(StripTrailQuote(StripLeadQuote(StripNumber(StripBullet(line)))))))

RECURSIVE KeepLines(_)
\* .map((line) => line.trim()).filter(Boolean)
KeepLines(text) ==
    IF text = <<>> THEN <<>>
    ELSE (IF Trim(Head(text)) = <<>> THEN <<>> ELSE <<Trim(Head(text))>>)
         \o KeepLines(Tail(text))

RECURSIVE KnownRepeated(_, _, _)
\* mutant: repeated lines are kept
KnownRepeated(lines, files, seen) ==
    IF lines = <<>> THEN <<>>
    ELSE LET l == CleanLine(Head(lines))
         IN  IF l \in files
             THEN <<l>> \o KnownRepeated(Tail(lines), files, seen)
             ELSE KnownRepeated(Tail(lines), files, seen)

RECURSIVE KnownOnce(_, _, _)
\* .filter((line) => files.has(line)).filter(seen): known lines, first occurrence
KnownOnce(lines, files, seen) ==
    IF lines = <<>> THEN <<>>
    ELSE LET l == CleanLine(Head(lines))
         IN  IF l \in files /\ l \notin seen
             THEN <<l>> \o KnownOnce(Tail(lines), files, seen \cup {l})
             ELSE KnownOnce(Tail(lines), files, seen)

\* const order = text.split("\n")....  (text is given as its lines)
order(text, diffs) == KnownOnce(KeepLines(text), Range(FilesOf(diffs)), {})

\* input.diffs.filter((d) => !seen.has(d.file))
rest(text, diffs) ==
    SelectSeq(diffs, LAMBDA d : d.file \notin Range(order(text, diffs)))

\* order.map((file) => map.get(file)).filter((d) => !!d)
sorted(text, diffs) == FlatMapGet(diffs, order(text, diffs))

\* mutant: an empty parsed list is not sent to the fallback
parseResultNoEmptyCheck(text, prev, diffs) ==
    LET result == sorted(text, diffs) \o rest(text, diffs)
    IN  IF Len(result) # Len(diffs) THEN fallback(prev, diffs) ELSE result

\* What orderDiffs returns once the gateway text is in (lines 697-731).
parseResult(text, prev, diffs) ==
    IF order(text, diffs) = <<>> THEN fallback(prev, diffs)
    ELSE LET result == sorted(text, diffs) \o rest(text, diffs)
         IN  IF Len(result) # Len(diffs) THEN fallback(prev, diffs) ELSE result

\* ------------------------------------------------------------ messages
Worktree == "w"

\* a part; a step-finish part has a reason ("stop" unless set otherwise), a
\* text part may be synthetic
Part(type, snapshot, files) ==
    [type |-> type, snapshot |-> snapshot, files |-> files,
     reason |-> IF type = "step-finish" THEN "stop" ELSE "", synthetic |-> FALSE]

\* a message: info.id, info.parentID (of an assistant message), info.role, parts
Msg(id, parentID, role, parts) ==
    [id |-> id, parentID |-> parentID, role |-> role, parts |-> parts]

\* path.relative(Instance.worktree, x) for an absolute path <<root, rest>>
relative(x) == IF x[1] = Worktree THEN x[2] ELSE <<".", ".", "/">> \o x[2]

AllParts(messages) == UNION {Range(messages[i].parts) : i \in 1..Len(messages)}

\* const files = new Set(...patch parts' files, relative to the worktree)
patchFiles(messages) ==
    {relative(x) : x \in UNION {p.files : p \in {q \in AllParts(messages) : q.type = "patch"}}}

\* the first part of the type that carries a snapshot, "" when there is none
FirstSnapshot(parts, type) ==
    LET I == {i \in 1..Len(parts) : parts[i].type = type /\ parts[i].snapshot # ""}
    IN  IF I = {} THEN "" ELSE parts[Min(I)].snapshot

\* computeDiff's from: set by the first message that has one, never again
snapshotFrom(messages) ==
    LET J == {j \in 1..Len(messages) : FirstSnapshot(messages[j].parts, "step-start") # ""}
    IN  IF J = {} THEN "" ELSE FirstSnapshot(messages[Min(J)].parts, "step-start")

\* computeDiff's to: overwritten by every message that has one
snapshotTo(messages) ==
    LET J == {j \in 1..Len(messages) : FirstSnapshot(messages[j].parts, "step-finish") # ""}
    IN  IF J = {} THEN "" ELSE FirstSnapshot(messages[Max(J)].parts, "step-finish")

\* if (from && to) return Snapshot.diffFull(from, to); return []
callsDiffFull(messages) == snapshotFrom(messages) # "" /\ snapshotTo(messages) # ""

\* input.messages.slice().reverse().find((m) => m.info.role === "user")
hasUser(messages) == \E i \in 1..Len(messages) : messages[i].role = "user"

hasAssistant(messages) == \E i \in 1..Len(messages) : messages[i].role = "assistant"

\* sortModel, given what the resolver's calls answer ("ok" or "fail"; a
\* failure is caught and counts as undefined)
sortModel(messages, small, full, dflt) ==
    IF hasAssistant(messages)
    THEN (IF small = "ok" THEN "small" ELSE IF full = "ok" THEN "full" ELSE "none")
    ELSE (IF dflt # "ok" THEN "none"
          ELSE IF small = "ok" THEN "small" ELSE IF full = "ok" THEN "full" ELSE "none")

\* -------------------------------------------------- summarizeMessage
\* userMsg.summary: title and body ("" when there is none) and diffs
Summary(title, body, d) == [title |-> title, body |-> body, diffs |-> d]

\* mpc of a sub-task that has not started, has returned, has rejected
MIdle == <<"", "idle">>
MDone == <<"", "done">>
MFailed == <<"", "failed">>

\* input.messages.filter((m) => m.info.id === input.messageID ||
\*   (m.info.role === "assistant" && m.info.parentID === input.messageID))
messageSlice(hist, id) ==
    SelectSeq(hist, LAMBDA m : m.id = id \/ (m.role = "assistant" /\ m.parentID = id))

\* messages.find((m) => m.info.id === input.messageID) finds a message
hasTarget(ms, id) == \E i \in 1..Len(ms) : ms[i].id = id

\* msgWithParts.parts.find((p) => p.type === "text" && !p.synthetic)
hasTextPart(ms, id) ==
    \E i \in 1..Len(ms) :
        /\ ms[i].id = id
        /\ \A j \in 1..(i - 1) : ms[j].id # id
        /\ \E part \in Range(ms[i].parts) : part.type = "text" /\ ~part.synthetic

\* messages.find((m) => m.info.role === "assistant") finds a message
hasReply(ms) == \E i \in 1..Len(ms) : ms[i].role = "assistant"

\* messages.some((m) => m.info.role === "assistant" &&
\*   m.parts.some((p) => p.type === "step-finish" && p.reason !== "tool-calls"))
finished(ms) ==
    \E i \in 1..Len(ms) :
        /\ ms[i].role = "assistant"
        /\ \E part \in Range(ms[i].parts) : part.type = "step-finish" /\ part.reason # "tool-calls"

\* lines 803-844: where summarizeMessage goes after the title part
bodyCheck(ms, sum) ==
    IF finished(ms)
    THEN (IF Len(sum.diffs) > 0 THEN <<"body", "agent">> ELSE <<"body", "update">>)
    ELSE MDone

\* mutant: the title is generated whether or not there is one
titleCheckAlways(ms, id, sum) ==
    IF hasTextPart(ms, id) THEN <<"title", "agent">> ELSE bodyCheck(ms, sum)

\* lines 772-773: if (textPart && !userMsg.summary?.title)
titleCheck(ms, id, sum) ==
    IF hasTextPart(ms, id) /\ sum.title = "" THEN <<"title", "agent">> ELSE bodyCheck(ms, sum)

\* summarizeMessage up to its first await: the target is looked up (a
\* missing target is a TypeError: the sub-task rejects) and computeDiff called
summarizeMessageStart(hist, id) ==
    IF hasTarget(messageSlice(hist, id), id) THEN <<"diff", "diff">> ELSE MFailed

\* ------------------------------------------------------- input domains
DiffA == Diff(FileA, 2, 1, "x", "xy")
DiffA2 == Diff(FileA, NaN, 1, "x", "xy")
DiffB == Diff(FileB, 1, 0, "", "y")
DiffC == Diff(FileC, 1, 1, "y", "")
DiffN == Diff(FileN, 3, NaN, "", "")
\* another diff of FileB with the signature row of DiffB
DiffB0 == Diff(FileB, 1, NaN, "", "z")

Abs(f) == <<Worktree, f>>

PatchAB == Part("patch", "", {Abs(FileA), Abs(FileB), <<"other", FileC>>})
PatchAll == Part("patch", "", {Abs(FileA), Abs(FileB), Abs(FileC), Abs(FileN)})
StepStart == Part("step-start", "snap0", {})
StepFinish == Part("step-finish", "snap1", {})
TextPart == Part("text", "", {})

\* a later step: its parts carry other snapshots
StepStart2 == Part("step-start", "snap2", {})
StepFinish2 == Part("step-finish", "snap3", {})

HistFull ==
    <<Msg("m1", "", "user", <<TextPart>>),
      Msg("m2", "m1", "assistant", <<StepStart, PatchAB, StepFinish>>)>>
HistNoUser == <<Msg("m2", "m1", "assistant", <<StepStart, PatchAll, StepFinish>>)>>
HistNoSnapshot ==
    <<Msg("m1", "", "user", <<TextPart>>), Msg("m2", "m1", "assistant", <<PatchAB>>)>>
HistAll ==
    <<Msg("m1", "", "user", <<TextPart>>),
      Msg("m2", "m1", "assistant", <<StepStart, PatchAll, StepFinish>>)>>
\* an assistant message of two steps, then one of one step
HistTwoSteps ==
    <<Msg("m2", "m1", "assistant", <<StepStart2, PatchAll, StepFinish, StepStart, StepFinish2>>),
      Msg("m3", "m1", "assistant", <<StepStart, StepFinish>>)>>
\* the last assistant message has two steps
HistLastTwoSteps ==
    <<Msg("m2", "m1", "assistant", <<StepStart, PatchAll, StepFinish, StepStart2, StepFinish2>>)>>

\* the text part of a message the user did not write
SyntheticPart == [TextPart EXCEPT !.synthetic = TRUE]
\* a step that ended for tool calls
StepToolCalls == [StepFinish EXCEPT !.reason = "tool-calls"]

\* the reply is still calling tools
HistToolCalls ==
    <<Msg("m1", "", "user", <<TextPart>>),
      Msg("m2", "m1", "assistant", <<StepStart, PatchAB, StepToolCalls>>)>>
\* no reply yet
HistNoReply == <<Msg("m1", "", "user", <<SyntheticPart>>)>>

\* the concurrent specification's inputs; its message id is of no message of
\* the history, so that the message-level sub-task rejects before its first
\* await (SpecSum runs the message-level sub-task)
Histories == {HistFull}
MessageIDs == {"m0"}
DiffFulls == {<<DiffB, DiffA>>, <<DiffA>>}
Texts == {<<FileA, FileB>>, <<FileC>>}

\* the inputs of one whole summarize call
SumHistories == {HistFull, HistToolCalls, HistNoReply}
SumMessageIDs == {"m1", "m0"}
SumDiffFulls == {<<DiffB, DiffA>>, <<>>}
Results == {"", "t1"}
StoredIDs == {"m1"}
MessageStores ==
    {[m \in StoredIDs |-> Summary("", "", <<>>)], [m \in StoredIDs |-> Summary("t0", "b0", <<DiffC>>)]}

\* the inputs of the specification with fairness
LiveDiffFulls == {<<DiffB, DiffA>>}
LiveTexts == {<<FileA, FileB>>}

\* what the resolver's three calls (small model, the assistant's model, the
\* default model) answer
Resolutions == {"ok", "fail"} \X {"ok", "fail"} \X {"ok", "fail"}
AllOrNone == {<<"ok", "ok", "ok">>, <<"fail", "fail", "fail">>}

\* the ordering specification's inputs
OrderHistories == {HistAll, HistNoUser, HistNoSnapshot, HistTwoSteps, HistLastTwoSteps}
OrderDiffFulls ==
    {<<>>, <<DiffA>>, <<DiffB, DiffA>>, <<DiffA, DiffB>>, <<DiffA2, DiffB>>,
     <<DiffB, DiffA, DiffC>>, <<DiffC, DiffA2, DiffB>>, <<DiffN, DiffB>>}
OrderStored ==
    {<<>>, <<DiffA, DiffB>>, <<DiffB, DiffA>>, <<DiffA2, DiffB>>, <<DiffA, DiffB, DiffC>>,
     <<DiffC, DiffB, DiffA>>, <<DiffB, DiffN>>, <<DiffC>>, <<DiffA, DiffB0>>}
Lines ==
    {FileA, FileB, FileC, FileN, <<"-", " ", "b">>, <<"a", "\t", "m">>, <<" ">>,
     <<"^", "b", "^">>}
OrderTexts == UNION {[1..k -> Lines] : k \in 1..MaxLines}

\* ------------------------------------------------------ the auth store
AuthOps == 1..NumOps

\* no value under a key
Absent == [type |-> "absent"]

\* Auth.Api
Api(key) == [type |-> "api", key |-> key]

\* Auth.VaultAI
VaultAI(instanceUrl, sessionToken, user) ==
    [type |-> "vaultai", instanceUrl |-> instanceUrl, sessionToken |-> sessionToken,
     user |-> user]

\* a stored value that is none of Oauth, Api, WellKnown, VaultAI
Unknown == [type |-> "token"]

\* an instance URL, as new URL(instanceUrl) splits it
Url(host, pathname) == [protocol |-> "https:", host |-> host, pathname |-> pathname]

\* VAULTAI_KEY_PREFIX + url.host
getKey(instanceUrl) == <<"vaultai:", instanceUrl.host>>

UrlH1 == Url("h1", "/")
UrlH1App == Url("h1", "/app")
UrlH2 == Url("h2", "/")
Urls == {UrlH1, UrlH1App, UrlH2}
Providers == {<<"anthropic">>}
AuthKeys == Providers \cup {getKey(u) : u \in Urls}
Infos == {Api("k1"), Api("k2")}
Tokens == {"tok1"}

\* Info.safeParse(value).success
valid(value) == value.type \in {"oauth", "api", "wellknown", "vaultai"}

NoCredentials == [k \in AuthKeys |-> Absent]

\* Auth.all, given the parsed auth.json: the entries that parse as Info
all(file) == [k \in AuthKeys |-> IF valid(file[k]) THEN file[k] ELSE Absent]

\* the files an Auth call can find
AuthFiles ==
    {NoCredentials,
     [k \in AuthKeys |->
        IF k = <<"anthropic">> THEN Api("k0")
        ELSE IF k = getKey(UrlH2) THEN Unknown
        ELSE Absent]}

\* --------------------------------------------------------------- state
VARIABLES
    pc,          \* each invocation's position (the await it is suspended at)
    sid,         \* input.sessionID
    messages,    \* the history Session.messages returned
    version,     \* the version summarizeSession captured
    diffs,       \* the filtered result of computeDiff
    prev,        \* what Storage.read returned in orderDiffs
    model,       \* what sortModel returned in orderDiffs
    text,        \* the gateway's text, as its lines
    gw,          \* how the gateway call ended
    ordered,     \* what orderDiffs returned
    timer,       \* the 8 s timer of the invocation's AbortController
    abortedBy,   \* who triggered the invocation's AbortController
    seq,         \* const seq = new Map<string, number>()
    aborts,      \* const aborts = new Map<string, AbortController>()
    storage,     \* Storage, key ["session_diff", id]
    summary,     \* the session record's summary
    event,       \* the last Session.Event.Diff published per session
    writer,      \* which invocation produced storage, summary and event
    overtaken,   \* a later summarizeSession started while this one awaited computeDiff
    snap,        \* the arguments of the pending Snapshot.diffFull(from, to)
    mid,         \* input.messageID
    mpc,         \* summarizeMessage's position: <<phase, the await it is suspended at>>
    mmsgs,       \* summarizeMessage's filtered messages
    msum,        \* userMsg.summary
    mstore,      \* the stored summary of each message
    answer,      \* what the last diff query returned
    authFile,    \* auth.json: the value stored under each key
    authMode,    \* the mode of auth.json
    apc,         \* each Auth.set / Auth.remove call's position
    aop,         \* which of the two the call is
    akey,        \* its key
    ainfo,       \* its info
    adata,       \* the object it hands to Bun.write
    aread        \* how its read of auth.json ended

vars ==
    <<pc, sid, messages, version, diffs, prev, model, text, gw, ordered, timer, abortedBy,
      seq, aborts, storage, summary, event, writer, overtaken,
      snap, mid, mpc, mmsgs, msum, mstore, answer,
      authFile, authMode, apc, aop, akey, ainfo, adata, aread>>

\* the credential store's variables
authvars == <<authFile, authMode, apc, aop, akey, ainfo, adata, aread>>

\* the message-level sub-task's variables
msgvars == <<mid, mpc, mmsgs, msum, mstore>>

others == <<snap, msgvars, answer, authvars>>

local == <<sid, messages, version, diffs, prev, model, text, gw, ordered>>

durable == <<storage, summary, event, writer>>

NoSummary == [additions |-> 0, deletions |-> 0, files |-> 0]

NoWriter == [storage |-> None, summary |-> None, event |-> None]

NoAnswer == [sessionID |-> "", diff |-> <<>>]

InitSession(stored, kept) ==
    /\ pc = [p \in Inv |-> "idle"]
    /\ sid = [p \in Inv |-> "s1"]
    /\ messages = [p \in Inv |-> <<>>]
    /\ version = [p \in Inv |-> 0]
    /\ diffs = [p \in Inv |-> <<>>]
    /\ prev = [p \in Inv |-> <<>>]
    /\ model = [p \in Inv |-> "none"]
    /\ text = [p \in Inv |-> <<>>]
    /\ gw = [p \in Inv |-> "none"]
    /\ ordered = [p \in Inv |-> <<>>]
    /\ timer = [p \in Inv |-> "unset"]
    /\ abortedBy = [p \in Inv |-> "none"]
    /\ seq = [s \in Sessions |-> 0]
    /\ aborts = [s \in Sessions |-> None]
    /\ storage \in stored
    /\ summary = [s \in Sessions |-> NoSummary]
    /\ event = [s \in Sessions |-> <<>>]
    /\ writer = [s \in Sessions |-> NoWriter]
    /\ overtaken = [p \in Inv |-> FALSE]
    /\ snap = [p \in Inv |-> <<>>]
    /\ mid = [p \in Inv |-> "m0"]
    /\ mpc = [p \in Inv |-> MIdle]
    /\ mmsgs = [p \in Inv |-> <<>>]
    /\ msum = [p \in Inv |-> Summary("", "", <<>>)]
    /\ mstore \in kept
    /\ answer = NoAnswer

\* no Auth call has been made; auth.json is one of files
InitAuthWith(files) ==
    /\ authFile \in files
    /\ authMode = "0644"
    /\ apc = [o \in AuthOps |-> "idle"]
    /\ aop = [o \in AuthOps |-> "none"]
    /\ akey = [o \in AuthOps |-> <<>>]
    /\ ainfo = [o \in AuthOps |-> Absent]
    /\ adata = [o \in AuthOps |-> NoCredentials]
    /\ aread = [o \in AuthOps |-> "none"]

InitWith(stored, kept) == InitSession(stored, kept) /\ InitAuthWith({NoCredentials})

Init == InitWith({[s \in Sessions |-> <<>>]}, {[m \in StoredIDs |-> Summary("", "", <<>>)]})

\* ------------------------------------------------------------- helpers
\* mutant: only a token below the captured version counts as stale
staleOnlyLower(p) == seq[sid[p]] < version[p]

\* mutant: the staleness checks are left out
staleNever(p) == FALSE

\* seq.get(id) !== version
stale(p) == seq[sid[p]] # version[p]

aborted(p) == abortedBy[p] # "none"

\* mutant: the controller is not triggered
abortNothing(h, who) == abortedBy

\* ctrl.abort(): the first trigger of a controller is the one that counts
abort(h, who) == [abortedBy EXCEPT ![h] = IF @ = "none" THEN who ELSE @]

\* mutant: clean deletes the session's entry, whoever registered it
cleanAbortsAny(p) == [aborts EXCEPT ![sid[p]] = None]

\* mutant: clean leaves the registry alone
cleanAbortsKeeps(p) == aborts

\* if (aborts.get(input.sessionID) === abort) aborts.delete(input.sessionID)
cleanAborts(p) == [aborts EXCEPT ![sid[p]] = IF @ = p THEN None ELSE @]

\* clearTimeout(timer)
cleanTimer(p) == [timer EXCEPT ![p] = IF @ = "armed" THEN "cleared" ELSE @]

\* what an await of the gateway's text can resolve to: the gateway honours
\* the abort signal, so a triggered call rejects
gatewayText(p, texts) ==
    IF aborted(p) THEN {[ok |-> FALSE, lines |-> <<>>]}
    ELSE {[ok |-> TRUE, lines |-> t] : t \in texts} \cup {[ok |-> FALSE, lines |-> <<>>]}

\* the summary aggregate of an ordering
aggregate(o) ==
    [additions |-> SeqSum([i \in 1..Len(o) |-> safe(o[i].additions)]),
     deletions |-> SeqSum([i \in 1..Len(o) |-> safe(o[i].deletions)]),
     files |-> Len(o)]

\* summarizeSession has returned or thrown: its frame (and that of orderDiffs,
\* and the AbortController it created) is gone
returned(p, how) ==
    /\ pc' = [pc EXCEPT ![p] = how]
    /\ messages' = [messages EXCEPT ![p] = <<>>]
    /\ diffs' = [diffs EXCEPT ![p] = <<>>]
    /\ ordered' = [ordered EXCEPT ![p] = <<>>]
    /\ abortedBy' = [abortedBy EXCEPT ![p] = "none"]

\* orderDiffs has returned to its caller: its frame is gone
orderDiffsFrameGone(p) ==
    /\ prev' = [prev EXCEPT ![p] = <<>>]
    /\ model' = [model EXCEPT ![p] = "none"]
    /\ text' = [text EXCEPT ![p] = <<>>]
    /\ gw' = [gw EXCEPT ![p] = "none"]
    /\ timer' = [timer EXCEPT ![p] = "unset"]

\* mutant: the default swallows the increment, seq.get(id) ?? (0 + 1)
advancedOnlyUnset(id) == IF seq[id] = 0 THEN 1 ELSE seq[id]

\* (seq.get(id) ?? 0) + 1; a session without an entry is at 0
advanced(id) == seq[id] + 1

\* ------------------------------------------------------------- actions
\* summarize is called: await Session.messages(...)
Summarize(p, s, m) ==
    /\ pc[p] = "idle"
    /\ IF p = 1 THEN TRUE ELSE pc[p - 1] # "idle"
    /\ pc' = [pc EXCEPT ![p] = "fetch"]
    /\ sid' = [sid EXCEPT ![p] = s]
    /\ mid' = [mid EXCEPT ![p] = m]
    /\ UNCHANGED <<messages, version, diffs, prev, model, text, gw, ordered, timer, abortedBy,
                   seq, aborts, durable, overtaken, snap, mpc, mmsgs, msum, mstore, answer, authvars>>

\* the history arrives; summarizeSession runs to its first await (computeDiff:
\* the scan for the snapshots, then Snapshot.diffFull or []), then
\* summarizeMessage runs to its first await
summarizeSession(p, hist) ==
    /\ pc[p] = "fetch"
    /\ messages' = [messages EXCEPT ![p] = hist]
    /\ version' = [version EXCEPT ![p] = advanced(sid[p])]
    /\ seq' = [seq EXCEPT ![sid[p]] = advanced(sid[p])]
    /\ abortedBy' = IF aborts[sid[p]] # None THEN abort(aborts[sid[p]], "manual") ELSE abortedBy
    /\ aborts' = [aborts EXCEPT ![sid[p]] = None]
    /\ overtaken' = [q \in Inv |->
                        overtaken[q] \/ (q # p /\ sid[q] = sid[p] /\ pc[q] = "diff")]
    /\ pc' = [pc EXCEPT ![p] = "diff"]
    /\ snap' = [snap EXCEPT ![p] =
                    IF callsDiffFull(hist) THEN <<snapshotFrom(hist), snapshotTo(hist)>> ELSE <<>>]
    /\ mpc' = [mpc EXCEPT ![p] = summarizeMessageStart(hist, mid[p])]
    /\ IF summarizeMessageStart(hist, mid[p]) = MFailed
       THEN UNCHANGED <<mmsgs, msum>>
       ELSE /\ mmsgs' = [mmsgs EXCEPT ![p] = messageSlice(hist, mid[p])]
            /\ msum' = [msum EXCEPT ![p] = mstore[mid[p]]]
    /\ UNCHANGED <<sid, diffs, prev, model, text, gw, ordered, timer, durable, mid, mstore, answer, authvars>>

\* computeDiff resolves; the first staleness check; orderDiffs runs to its
\* first await (Storage.read) or returns at once
computeDiffResolved(p, fulls) ==
    /\ pc[p] = "diff"
    /\ \E full \in (IF snap[p] # <<>> THEN fulls ELSE {<<>>}) :
          LET d == SelectSeq(full, LAMBDA x : x.file \in patchFiles(messages[p]))
          IN  IF stale(p)
              THEN returned(p, "done")
              ELSE /\ diffs' = [diffs EXCEPT ![p] = d]
                   /\ IF trivial(d)
                      THEN /\ pc' = [pc EXCEPT ![p] = "ordered"]
                           /\ ordered' = [ordered EXCEPT ![p] = d]
                      ELSE pc' = [pc EXCEPT ![p] = "read"] /\ UNCHANGED ordered
                   /\ UNCHANGED <<messages, abortedBy>>
    /\ snap' = [snap EXCEPT ![p] = <<>>]
    /\ UNCHANGED <<sid, version, prev, model, text, gw, timer, seq, aborts, durable, overtaken,
                   msgvars, answer, authvars>>

\* Storage.read resolves (a failed read is []); the fast path; the user check
storageReadResolved(p) ==
    /\ pc[p] = "read"
    /\ \E r \in {storage[sid[p]], <<>>} :
          /\ prev' = [prev EXCEPT ![p] = r]
          /\ IF fastPath(r, diffs[p])
             THEN /\ ordered' = [ordered EXCEPT ![p] = cached(r, diffs[p])]
                  /\ pc' = [pc EXCEPT ![p] = "ordered"]
             ELSE IF ~hasUser(messages[p])
                  THEN /\ ordered' = [ordered EXCEPT ![p] = fallback(r, diffs[p])]
                       /\ pc' = [pc EXCEPT ![p] = "ordered"]
                  ELSE pc' = [pc EXCEPT ![p] = "model"] /\ UNCHANGED ordered
    /\ UNCHANGED <<sid, messages, version, diffs, model, text, gw, timer, abortedBy, seq,
                   aborts, durable, overtaken>>
    /\ UNCHANGED others

\* mutant: the gateway is called whether or not a model was resolved
noModelNever(m) == FALSE

\* if (!model)
noModel(m) == m = "none"

\* sortModel resolves; without a model orderDiffs returns the fallback,
\* with one it calls Agent.get
sortModelResolved(p, answers) ==
    /\ pc[p] = "model"
    /\ \E a \in answers :
          LET m == sortModel(messages[p], a[1], a[2], a[3])
          IN  /\ model' = [model EXCEPT ![p] = m]
              /\ IF noModel(m)
                 THEN /\ ordered' = [ordered EXCEPT ![p] = fallback(prev[p], diffs[p])]
                      /\ pc' = [pc EXCEPT ![p] = "ordered"]
                 ELSE pc' = [pc EXCEPT ![p] = "agent"] /\ UNCHANGED ordered
    /\ UNCHANGED <<sid, messages, version, diffs, prev, text, gw, timer, abortedBy, seq,
                   aborts, durable, overtaken>>
    /\ UNCHANGED others

\* Agent.get resolves; the controller is registered, the timer set and
\* LLM.stream called
agentGetResolved(p) ==
    /\ pc[p] = "agent"
    /\ aborts' = [aborts EXCEPT ![sid[p]] = p]
    /\ timer' = [timer EXCEPT ![p] = "armed"]
    /\ gw' = [gw EXCEPT ![p] = "pending"]
    /\ pc' = [pc EXCEPT ![p] = "stream"]
    /\ UNCHANGED <<sid, messages, version, diffs, prev, model, text, ordered, abortedBy, seq,
                   durable, overtaken>>
    /\ UNCHANGED others

\* mutant: the timer fires without triggering the controller
timerFiresIdle(p) ==
    /\ timer[p] = "armed"
    /\ timer' = [timer EXCEPT ![p] = "fired"]
    /\ UNCHANGED <<pc, local, abortedBy, seq, aborts, durable, overtaken>>
    /\ UNCHANGED others

\* setTimeout(() => abort.abort(), 8000) fires
timerFires(p) ==
    /\ timer[p] = "armed"
    /\ timer' = [timer EXCEPT ![p] = "fired"]
    /\ abortedBy' = abort(p, "timer")
    /\ UNCHANGED <<pc, local, seq, aborts, durable, overtaken>>
    /\ UNCHANGED others

\* LLM.stream resolves with a stream, or rejects (caught: undefined)
llmStreamResolved(p) ==
    /\ pc[p] = "stream"
    /\ \E got \in BOOLEAN :
          IF got
          THEN /\ pc' = [pc EXCEPT ![p] = "text"]
               /\ UNCHANGED <<gw, ordered, timer, aborts>>
          ELSE /\ timer' = cleanTimer(p)
               /\ aborts' = cleanAborts(p)
               /\ gw' = [gw EXCEPT ![p] = "nostream"]
               /\ ordered' = [ordered EXCEPT ![p] = fallback(prev[p], diffs[p])]
               /\ pc' = [pc EXCEPT ![p] = "ordered"]
    /\ UNCHANGED <<sid, messages, version, diffs, prev, model, text, abortedBy, seq, durable,
                   overtaken>>
    /\ UNCHANGED others

\* stream.text resolves or rejects (caught: ""); clean; the text is parsed
streamTextResolved(p, texts) ==
    /\ pc[p] = "text"
    /\ \E r \in gatewayText(p, texts) :
          LET t == IF r.ok THEN r.lines ELSE << <<>> >>
          IN  /\ text' = [text EXCEPT ![p] = t]
              /\ gw' = [gw EXCEPT ![p] = IF r.ok THEN "text" ELSE "rejected"]
              /\ ordered' = [ordered EXCEPT ![p] = parseResult(t, prev[p], diffs[p])]
    /\ timer' = cleanTimer(p)
    /\ aborts' = cleanAborts(p)
    /\ pc' = [pc EXCEPT ![p] = "ordered"]
    /\ UNCHANGED <<sid, messages, version, diffs, prev, model, abortedBy, seq, durable, overtaken>>
    /\ UNCHANGED others

\* orderDiffs has returned; the second staleness check; Session.update is called
orderDiffsReturned(p) ==
    /\ pc[p] = "ordered"
    /\ orderDiffsFrameGone(p)
    /\ IF stale(p)
       THEN returned(p, "done")
       ELSE /\ pc' = [pc EXCEPT ![p] = "update"]
            /\ UNCHANGED <<messages, diffs, ordered, abortedBy>>
    /\ UNCHANGED <<sid, version, seq, aborts, durable, overtaken>>
    /\ UNCHANGED others

\* Session.update changes the session record
sessionUpdateApplied(p) ==
    /\ pc[p] = "update"
    /\ summary' = [summary EXCEPT ![sid[p]] = aggregate(ordered[p])]
    /\ writer' = [writer EXCEPT ![sid[p]].summary = p]
    /\ pc' = [pc EXCEPT ![p] = "updated"]
    /\ UNCHANGED <<local, timer, abortedBy, seq, aborts, storage, event, overtaken>>
    /\ UNCHANGED others

\* await Session.update resumes; Storage.write is called
sessionUpdateResolved(p) ==
    /\ pc[p] = "updated"
    /\ pc' = [pc EXCEPT ![p] = "write"]
    /\ UNCHANGED <<local, timer, abortedBy, seq, aborts, durable, overtaken>>
    /\ UNCHANGED others

\* Storage.write changes the stored ordering
storageWriteApplied(p) ==
    /\ pc[p] = "write"
    /\ storage' = [storage EXCEPT ![sid[p]] = ordered[p]]
    /\ writer' = [writer EXCEPT ![sid[p]].storage = p]
    /\ pc' = [pc EXCEPT ![p] = "written"]
    /\ UNCHANGED <<local, timer, abortedBy, seq, aborts, summary, event, overtaken>>
    /\ UNCHANGED others

\* await Storage.write resumes; Bus.publish(Session.Event.Diff, ...)
storageWriteResolved(p) ==
    /\ pc[p] = "written"
    /\ event' = [event EXCEPT ![sid[p]] = ordered[p]]
    /\ writer' = [writer EXCEPT ![sid[p]].event = p]
    /\ returned(p, "done")
    /\ UNCHANGED <<sid, version, prev, model, text, gw, timer, seq, aborts, storage, summary,
                   overtaken>>
    /\ UNCHANGED others

\* mutant: the rejection is swallowed and the event published all the same
writeSwallowed(p) ==
    /\ pc[p] \in {"update", "write"}
    /\ event' = [event EXCEPT ![sid[p]] = ordered[p]]
    /\ writer' = [writer EXCEPT ![sid[p]].event = p]
    /\ returned(p, "done")
    /\ UNCHANGED <<sid, version, prev, model, text, gw, timer, seq, aborts, storage, summary,
                   overtaken>>
    /\ UNCHANGED others

\* Session.update or Storage.write rejects: summarizeSession rejects
writeRejected(p) ==
    /\ pc[p] \in {"update", "write"}
    /\ returned(p, "failed")
    /\ UNCHANGED <<sid, version, prev, model, text, gw, timer, seq, aborts, durable, overtaken>>
    /\ UNCHANGED others

\* Session.messages, Snapshot.diffFull or Agent.get rejects: nothing catches
\* it, so summarize (at the fetch) or summarizeSession rejects
collaboratorRejected(p) ==
    /\ pc[p] \in {"fetch", "diff", "agent"}
    /\ orderDiffsFrameGone(p)
    /\ returned(p, "failed")
    /\ snap' = [snap EXCEPT ![p] = <<>>]
    /\ UNCHANGED <<sid, version, seq, aborts, durable, overtaken, msgvars, answer, authvars>>

\* ------------------------------------------- actions of summarizeMessage
sessionvars ==
    <<pc, sid, messages, version, diffs, prev, model, text, gw, ordered, timer, abortedBy,
      seq, aborts, durable, overtaken, snap>>

\* summarizeMessage goes on to the position next; when it has returned or
\* rejected its frame is gone
messageGoes(p, next, sum) ==
    /\ mpc' = [mpc EXCEPT ![p] = next]
    /\ IF next \in {MDone, MFailed}
       THEN /\ mmsgs' = [mmsgs EXCEPT ![p] = <<>>]
            /\ msum' = [msum EXCEPT ![p] = Summary("", "", <<>>)]
       ELSE /\ msum' = [msum EXCEPT ![p] = sum]
            /\ UNCHANGED mmsgs

\* computeDiff({ messages }) resolves: the diffs are attached to the summary
\* and Session.updateMessage is called
messageDiffResolved(p, fulls) ==
    /\ mpc[p] = <<"diff", "diff">>
    /\ \E full \in (IF callsDiffFull(mmsgs[p]) THEN fulls ELSE {<<>>}) :
          messageGoes(p, <<"diff", "update">>, [msum[p] EXCEPT !.diffs = full])
    /\ UNCHANGED <<sessionvars, mid, mstore, answer, authvars>>

\* Session.updateMessage(userMsg) stores the message and resolves
updateMessageResolved(p) ==
    /\ mpc[p][2] = "update"
    /\ mstore' = [mstore EXCEPT ![mid[p]] = msum[p]]
    /\ messageGoes(p,
          IF mpc[p][1] = "diff"
          THEN (IF hasReply(mmsgs[p]) THEN <<"small", "small">> ELSE MFailed)
          ELSE IF mpc[p][1] = "title" THEN bodyCheck(mmsgs[p], msum[p])
          ELSE MDone,
          msum[p])
    /\ UNCHANGED <<sessionvars, mid, answer, authvars>>

\* Provider.getSmallModel resolves, with a model or with none (then
\* Provider.getModel is called)
getSmallModelResolved(p) ==
    /\ mpc[p] = <<"small", "small">>
    /\ \E got \in BOOLEAN :
          messageGoes(p,
              IF got THEN titleCheck(mmsgs[p], mid[p], msum[p]) ELSE <<"small", "model">>,
              msum[p])
    /\ UNCHANGED <<sessionvars, mid, mstore, answer, authvars>>

\* Provider.getModel resolves: the assistant's model, or the agent's own
\* model, with which LLM.stream is called
getModelResolved(p) ==
    /\ mpc[p][2] = "model"
    /\ messageGoes(p,
          IF mpc[p][1] = "small" THEN titleCheck(mmsgs[p], mid[p], msum[p])
          ELSE <<mpc[p][1], "stream">>,
          msum[p])
    /\ UNCHANGED <<sessionvars, mid, mstore, answer, authvars>>

\* Agent.get("title") or Agent.get("summary") resolves; an agent with a
\* model of its own has it resolved first, then LLM.stream is called
messageAgentResolved(p) ==
    /\ mpc[p][2] = "agent"
    /\ \E own \in BOOLEAN :
          messageGoes(p, <<mpc[p][1], IF own THEN "model" ELSE "stream">>, msum[p])
    /\ UNCHANGED <<sessionvars, mid, mstore, answer, authvars>>

\* LLM.stream resolves with a stream
messageStreamResolved(p) ==
    /\ mpc[p][2] = "stream"
    /\ messageGoes(p, <<mpc[p][1], "text">>, msum[p])
    /\ UNCHANGED <<sessionvars, mid, mstore, answer, authvars>>

\* stream.text resolves: the title is set, or the body when the result is
\* not empty, and Session.updateMessage is called
messageTextResolved(p, results) ==
    /\ mpc[p][2] = "text"
    /\ \E result \in results :
          messageGoes(p, <<mpc[p][1], "update">>,
              IF mpc[p][1] = "title" THEN [msum[p] EXCEPT !.title = result]
              ELSE IF result # "" THEN [msum[p] EXCEPT !.body = result]
              ELSE msum[p])
    /\ UNCHANGED <<sessionvars, mid, mstore, answer, authvars>>

\* mutant: a rejection in summarizeMessage also ends the session-level sub-task
messageRejectedStopsSession(p) ==
    /\ mpc[p][2] \in {"diff", "update", "small", "model", "agent", "stream", "text"}
    /\ messageGoes(p, MFailed, msum[p])
    /\ pc' = [pc EXCEPT ![p] = "failed"]
    /\ UNCHANGED <<sid, messages, version, diffs, prev, model, text, gw, ordered, timer, abortedBy,
                   seq, aborts, durable, overtaken, snap, mid, mstore, answer, authvars>>

\* the collaborator summarizeMessage awaits rejects: nothing in
\* summarizeMessage catches it, so the sub-task rejects
messageRejected(p) ==
    /\ mpc[p][2] \in {"diff", "update", "small", "model", "agent", "stream", "text"}
    /\ messageGoes(p, MFailed, msum[p])
    /\ UNCHANGED <<sessionvars, mid, mstore, answer, authvars>>

\* ------------------------------------------------------ the diff query
\* mutant: the query removes the ordering it hands out
diffConsumes(s) ==
    /\ answer' = [sessionID |-> s, diff |-> storage[s]]
    /\ storage' = [storage EXCEPT ![s] = <<>>]
    /\ UNCHANGED <<pc, local, timer, abortedBy, seq, aborts, summary, event, writer,
                   overtaken, snap, msgvars, authvars>>

\* diff: Storage.read(["session_diff", sessionID]).catch(() => [])
diff(s) ==
    /\ \E r \in {storage[s], <<>>} : answer' = [sessionID |-> s, diff |-> r]
    /\ UNCHANGED <<sessionvars, msgvars, authvars>>

\* orderDiffs is called again by p with the input q's call had
orderDiffsCalled(p, q) ==
    /\ pc[p] = "idle"
    /\ pc[q] = "ordered"
    /\ p # q
    /\ sid' = [sid EXCEPT ![p] = sid[q]]
    /\ messages' = [messages EXCEPT ![p] = messages[q]]
    /\ diffs' = [diffs EXCEPT ![p] = diffs[q]]
    /\ IF trivial(diffs[q])
       THEN /\ pc' = [pc EXCEPT ![p] = "ordered"]
            /\ ordered' = [ordered EXCEPT ![p] = diffs[q]]
       ELSE pc' = [pc EXCEPT ![p] = "read"] /\ UNCHANGED ordered
    /\ UNCHANGED <<version, prev, model, text, gw, timer, abortedBy, seq, aborts, durable, overtaken>>
    /\ UNCHANGED others

\* ------------------------------------------------- actions of Auth
\* Auth.set(key, info) is called: Bun.file, then await all()
set(o, key, info) ==
    /\ apc[o] = "idle"
    /\ IF o = 1 THEN TRUE ELSE apc[o - 1] # "idle"
    /\ apc' = [apc EXCEPT ![o] = "all"]
    /\ aop' = [aop EXCEPT ![o] = "set"]
    /\ akey' = [akey EXCEPT ![o] = key]
    /\ ainfo' = [ainfo EXCEPT ![o] = info]
    /\ UNCHANGED <<authFile, authMode, adata, aread>>
    /\ UNCHANGED <<sessionvars, msgvars, answer>>

\* Auth.remove(key) is called: Bun.file, then await all()
remove(o, key) ==
    /\ apc[o] = "idle"
    /\ IF o = 1 THEN TRUE ELSE apc[o - 1] # "idle"
    /\ apc' = [apc EXCEPT ![o] = "all"]
    /\ aop' = [aop EXCEPT ![o] = "remove"]
    /\ akey' = [akey EXCEPT ![o] = key]
    /\ UNCHANGED <<authFile, authMode, ainfo, adata, aread>>
    /\ UNCHANGED <<sessionvars, msgvars, answer>>

\* Auth.VaultAIHelper.save(instanceUrl, sessionToken, user)
save(o, instanceUrl, sessionToken, user) ==
    set(o, getKey(instanceUrl), VaultAI(instanceUrl, sessionToken, user))

\* Auth.VaultAIHelper.removeInstance(instanceUrl)
removeInstance(o, instanceUrl) == remove(o, getKey(instanceUrl))

\* all() resolves: file.json() gave the file's object, or rejected (caught:
\* {}); set spreads the data and puts info under key, remove deletes key;
\* Bun.write is called with the result
allResolved(o) ==
    /\ apc[o] = "all"
    /\ \E r \in {"ok", "failed"} :
          LET data == IF r = "ok" THEN all(authFile) ELSE NoCredentials
          IN  /\ adata' = [adata EXCEPT ![o] =
                              IF aop[o] = "set"
                              THEN [data EXCEPT ![akey[o]] = ainfo[o]]
                              ELSE [data EXCEPT ![akey[o]] = Absent]]
              /\ aread' = [aread EXCEPT ![o] = r]
    /\ apc' = [apc EXCEPT ![o] = "write"]
    /\ UNCHANGED <<authFile, authMode, aop, akey, ainfo>>
    /\ UNCHANGED <<sessionvars, msgvars, answer>>

\* Bun.write replaces the whole of auth.json and resolves; fs.chmod is called
writeResolved(o) ==
    /\ apc[o] = "write"
    /\ authFile' = adata[o]
    /\ apc' = [apc EXCEPT ![o] = "chmod"]
    /\ UNCHANGED <<authMode, aop, akey, ainfo, adata, aread>>
    /\ UNCHANGED <<sessionvars, msgvars, answer>>

\* fs.chmod(file.name, 0o600) resolves: the call returns
chmodResolved(o) ==
    /\ apc[o] = "chmod"
    /\ authMode' = "0600"
    /\ apc' = [apc EXCEPT ![o] = "done"]
    /\ UNCHANGED <<authFile, aop, akey, ainfo, adata, aread>>
    /\ UNCHANGED <<sessionvars, msgvars, answer>>

\* Bun.write or fs.chmod rejects: the call rejects
authRejected(o) ==
    /\ apc[o] \in {"write", "chmod"}
    /\ apc' = [apc EXCEPT ![o] = "failed"]
    /\ UNCHANGED <<authFile, authMode, aop, akey, ainfo, adata, aread>>
    /\ UNCHANGED <<sessionvars, msgvars, answer>>

\* ------------------------------------------------------ specifications
Next ==
    \E p \in Inv :
        \/ \E s \in (IF p = 1 THEN {"s1"} ELSE Sessions), m \in MessageIDs : Summarize(p, s, m)
        \/ \E h \in Histories : summarizeSession(p, h)
        \/ computeDiffResolved(p, DiffFulls)
        \/ storageReadResolved(p)
        \/ sortModelResolved(p, AllOrNone)
        \/ agentGetResolved(p)
        \/ timerFires(p)
        \/ llmStreamResolved(p)
        \/ streamTextResolved(p, Texts)
        \/ orderDiffsReturned(p)
        \/ sessionUpdateApplied(p)
        \/ sessionUpdateResolved(p)
        \/ storageWriteApplied(p)
        \/ storageWriteResolved(p)
        \/ writeRejected(p)
        \/ collaboratorRejected(p)

Spec == Init /\ [][Next]_vars

\* The collaborators other than the gateway settle (the rejections of Next
\* are alternatives), and an await whose promise has settled resumes.
Settles(p) ==
    \/ \E h \in Histories : summarizeSession(p, h)
    \/ computeDiffResolved(p, LiveDiffFulls)
    \/ storageReadResolved(p)
    \/ sortModelResolved(p, AllOrNone)
    \/ agentGetResolved(p)
    \/ orderDiffsReturned(p)
    \/ sessionUpdateApplied(p)
    \/ sessionUpdateResolved(p)
    \/ storageWriteApplied(p)
    \/ storageWriteResolved(p)

\* The gateway honours the abort signal: a call whose controller has been
\* triggered settles. A call whose controller has not been triggered may
\* stay pending for ever.
GatewayHonoursAbort(p) ==
    aborted(p) /\ (llmStreamResolved(p) \/ streamTextResolved(p, LiveTexts))

\* Overlapping summarize calls for one session, one diff set and one text,
\* under the scheduling the runtime gives: an armed timer fires, a cancelled
\* gateway call settles, the other collaborators settle.
NextLive ==
    \E p \in Inv :
        \/ \E m \in MessageIDs : Summarize(p, "s1", m)
        \/ \E h \in Histories : summarizeSession(p, h)
        \/ computeDiffResolved(p, LiveDiffFulls)
        \/ storageReadResolved(p)
        \/ sortModelResolved(p, AllOrNone)
        \/ agentGetResolved(p)
        \/ timerFires(p)
        \/ llmStreamResolved(p)
        \/ streamTextResolved(p, LiveTexts)
        \/ orderDiffsReturned(p)
        \/ sessionUpdateApplied(p)
        \/ sessionUpdateResolved(p)
        \/ storageWriteApplied(p)
        \/ storageWriteResolved(p)
        \/ writeRejected(p)
        \/ collaboratorRejected(p)

Fairness ==
    \A p \in Inv :
        /\ WF_vars(timerFires(p))
        /\ WF_vars(GatewayHonoursAbort(p))
        /\ WF_vars(Settles(p))

SpecLive == Init /\ [][NextLive]_vars /\ Fairness

\* One orderDiffs call at a time, over every stored ordering, diff set and text.
InitOrder ==
    InitWith({[s \in Sessions |-> IF s = "s1" THEN o ELSE <<>>] : o \in OrderStored},
             {[m \in StoredIDs |-> Summary("", "", <<>>)]})

NextOrder ==
    \/ Summarize(1, "s1", "m1")
    \/ \E h \in OrderHistories : summarizeSession(1, h)
    \/ computeDiffResolved(1, OrderDiffFulls)
    \/ storageReadResolved(1)
    \/ sortModelResolved(1, Resolutions)
    \/ agentGetResolved(1)
    \/ timerFires(1)
    \/ llmStreamResolved(1)
    \/ streamTextResolved(1, OrderTexts)
    \/ orderDiffsReturned(1)
    \/ collaboratorRejected(1)

SpecOrder == InitOrder /\ [][NextOrder]_vars

\* One summarize call end to end, both sub-tasks, and diff queries at any time.
InitSum == InitWith({[s \in Sessions |-> <<>>]}, MessageStores)

NextSum ==
    \/ \E m \in SumMessageIDs : Summarize(1, "s1", m)
    \/ \E h \in SumHistories : summarizeSession(1, h)
    \/ computeDiffResolved(1, DiffFulls)
    \/ storageReadResolved(1)
    \/ sortModelResolved(1, AllOrNone)
    \/ agentGetResolved(1)
    \/ timerFires(1)
    \/ llmStreamResolved(1)
    \/ streamTextResolved(1, Texts)
    \/ orderDiffsReturned(1)
    \/ sessionUpdateApplied(1)
    \/ sessionUpdateResolved(1)
    \/ storageWriteApplied(1)
    \/ storageWriteResolved(1)
    \/ writeRejected(1)
    \/ collaboratorRejected(1)
    \/ messageDiffResolved(1, SumDiffFulls)
    \/ updateMessageResolved(1)
    \/ getSmallModelResolved(1)
    \/ getModelResolved(1)
    \/ messageAgentResolved(1)
    \/ messageStreamResolved(1)
    \/ messageTextResolved(1, Results)
    \/ messageRejected(1)
    \/ diff("s1")

SpecSum == InitSum /\ [][NextSum]_vars

\* Two orderDiffs calls in succession with the same input; nothing is written
\* in between, so the stored ordering is the same for both.
NextAgain ==
    \/ Summarize(1, "s1", "m1")
    \/ \E h \in OrderHistories : summarizeSession(1, h)
    \/ computeDiffResolved(1, OrderDiffFulls)
    \/ orderDiffsCalled(2, 1)
    \/ \E p \in {1, 2} :
          \/ storageReadResolved(p)
          \/ sortModelResolved(p, Resolutions)
          \/ agentGetResolved(p)
          \/ timerFires(p)
          \/ llmStreamResolved(p)
          \/ streamTextResolved(p, Texts)
          \/ collaboratorRejected(p)

SpecAgain == InitOrder /\ [][NextAgain]_vars

\* Overlapping summarize calls for one message of one session, both
\* sub-tasks; the session's diff set is a single file, so that orderDiffs
\* returns at once.
NextMsg ==
    \E p \in Inv :
        \/ Summarize(p, "s1", "m1")
        \/ summarizeSession(p, HistFull)
        \/ computeDiffResolved(p, {<<DiffA>>})
        \/ orderDiffsReturned(p)
        \/ sessionUpdateApplied(p)
        \/ sessionUpdateResolved(p)
        \/ storageWriteApplied(p)
        \/ storageWriteResolved(p)
        \/ messageDiffResolved(p, {<<DiffA>>})
        \/ updateMessageResolved(p)
        \/ getSmallModelResolved(p)
        \/ getModelResolved(p)
        \/ messageAgentResolved(p)
        \/ messageStreamResolved(p)
        \/ messageTextResolved(p, Results)
        \/ messageRejected(p)

SpecMsg == InitSum /\ [][NextMsg]_vars

\* Overlapping Auth.set / Auth.remove calls (directly and through
\* VaultAIHelper) on one auth.json.
InitAuth ==
    /\ InitSession({[s \in Sessions |-> <<>>]}, {[m \in StoredIDs |-> Summary("", "", <<>>)]})
    /\ InitAuthWith(AuthFiles)

NextAuth ==
    \E o \in AuthOps :
        \/ \E k \in Providers, i \in Infos : set(o, k, i)
        \/ \E k \in Providers : remove(o, k)
        \/ \E u \in Urls, t \in Tokens : save(o, u, t, "u1")
        \/ \E u \in Urls : removeInstance(o, u)
        \/ allResolved(o)
        \/ writeResolved(o)
        \/ chmodResolved(o)
        \/ authRejected(o)

SpecAuth == InitAuth /\ [][NextAuth]_vars

\* -------------------------------------------------------------- claims
Started(p) == pc[p] \notin {"idle", "fetch"}

\* the invocation's gateway call is outstanding: started, not completed,
\* its controller not triggered
Outstanding(p) == pc[p] \in {"stream", "text"} /\ ~aborted(p)

\* p takes the step that changes the session record, the stored ordering or
\* publishes the event
Commits(p) ==
    \/ pc[p] = "update" /\ pc'[p] = "updated"
    \/ pc[p] = "write" /\ pc'[p] = "written"
    \/ pc[p] = "written" /\ pc'[p] = "done"

\* C1: whenever an invocation updates the session record, writes the
\* ordering or publishes, its captured version is the session's current
\* sequencing token.
C1_CommitsOnlyWhileCurrent == [][\A p \in Inv : Commits(p) => ~stale(p)]_vars

\* o holds every diff of d exactly once and nothing else
IsPermutation(o, d) ==
    /\ Len(o) = Len(d)
    /\ Range(o) = Range(d)
    /\ DistinctFiles(o)

\* C2: for a diff set with pairwise-distinct paths, whatever was stored and
\* whatever the gateway does, orderDiffs returns a permutation of its input.
C2_OrderIsPermutation ==
    (pc[1] = "ordered" /\ DistinctFiles(diffs[1])) => IsPermutation(ordered[1], diffs[1])

C2_Witness ==
    /\ pc[1] = "ordered"
    /\ gw[1] = "text"
    /\ Len(diffs[1]) = 3
    /\ storage["s1"] # <<>>
    /\ ordered[1] # diffs[1]

\* C3: per session at most one gateway ordering call is outstanding.
C3_SingleFlight ==
    \A s \in Sessions : Cardinality({p \in Inv : sid[p] = s /\ Outstanding(p)}) <= 1

\* C4: an invocation whose session token was advanced by a later invocation
\* before its diff computation resolved only returns (or rejects, when the
\* diff computation does): it never reaches the session update, the storage
\* write or the publish, and nothing persisted or published is its.
C4_OvertakenCommitsNothing ==
    \A p \in Inv :
        overtaken[p] =>
            /\ pc[p] \in {"diff", "done", "failed"}
            /\ \A s \in Sessions :
                  writer[s].summary # p /\ writer[s].storage # p /\ writer[s].event # p

C4_Witness ==
    \E p, q \in Inv :
        /\ overtaken[p]
        /\ pc[p] = "done"
        /\ pc[q] = "done"
        /\ writer[sid[p]] = [storage |-> q, summary |-> q, event |-> q]

\* the invocation that holds the session's highest version
Latest(s) == CHOOSE p \in Inv : Started(p) /\ sid[p] = s /\ version[p] = seq[s]

\* C5: once every summarize call has finished, what is persisted, the
\* session record's summary and the last published event are those of the
\* invocation with the highest version.
C5_LastWriterWins ==
    (\A p \in Inv : pc[p] \in {"idle", "done"}) =>
        \A s \in Sessions :
            seq[s] > 0 =>
                writer[s] = [storage |-> Latest(s), summary |-> Latest(s), event |-> Latest(s)]

\* C6: when orderDiffs returns after registering its controller, the
\* controller is not in the registry and its timer is not pending.
C6_HandleCleared ==
    \A p \in Inv :
        (pc[p] = "ordered" /\ timer[p] # "unset") =>
            aborts[sid[p]] # p /\ timer[p] \in {"cleared", "fired"}

C6_Witness ==
    \E p \in Inv : pc[p] = "ordered" /\ timer[p] = "cleared" /\ gw[p] = "text"

\* C7: the step in which summarizeSession advances the token also triggers
\* the registered controller, if any, and empties the session's registry
\* entry, before the invocation's first await.
C7_CancelsOnStart ==
    [][\A p \in Inv :
          (pc[p] = "fetch" /\ pc'[p] = "diff") =>
              /\ seq'[sid[p]] = seq[sid[p]] + 1
              /\ version'[p] = seq'[sid[p]]
              /\ aborts'[sid[p]] = None
              /\ aborts[sid[p]] # None => abortedBy'[aborts[sid[p]]] # "none"]_vars

C7_Witness ==
    \E p, q \in Inv :
        /\ abortedBy[p] = "manual"
        /\ pc[p] \in {"stream", "text"}
        /\ sid[q] = sid[p]
        /\ version[q] > version[p]
        /\ pc[q] = "diff"
        /\ aborts[sid[p]] = None

\* the files of a sequence of diffs, as a set
FileSet(d) == Range(FilesOf(d))

\* the position of the diff of file f in d
PosIn(d, f) == Min({i \in 1..Len(d) : d[i].file = f})

\* The fallback order, stated from the stored and the current diffs: when
\* both hold the same files, the current diffs in the stored order, and the
\* input otherwise.
FallbackOrder(stored, d) ==
    IF FileSet(stored) = FileSet(d) /\ Len(stored) = Len(d)
    THEN [i \in 1..Len(d) |-> d[PosIn(d, stored[i].file)]]
    ELSE d

\* C8: when the 8 s timer fires on an unresolved gateway call, the
\* controller is triggered, orderDiffs returns the fallback order and the
\* session's registry entry is empty.
C8_TimeoutFallsBack ==
    (pc[1] = "ordered" /\ timer[1] = "fired") =>
        /\ aborted(1)
        /\ ordered[1] = FallbackOrder(prev[1], diffs[1])
        /\ aborts[sid[1]] = None

C8_Witness ==
    /\ pc[1] = "ordered"
    /\ timer[1] = "fired"
    /\ gw[1] = "rejected"
    /\ ordered[1] # diffs[1]

\* what a line of the text names once its decoration is stripped
Names(line) == CleanLine(Trim(line))

\* the input files the text names
Mentioned(t, d) == {Names(t[i]) : i \in 1..Len(t)} \cap FileSet(d)

\* the text leaves out an input file, or names a path that is no input file
Incomplete(t, d) ==
    \/ Mentioned(t, d) # FileSet(d)
    \/ \E i \in 1..Len(t) : Trim(t[i]) # <<>> /\ Names(t[i]) \notin FileSet(d)

\* C9 as stated: a text that omits an input file or names an unknown path
\* makes orderDiffs return the fallback order.
C9_IncompleteGivesFallback ==
    (pc[1] = "ordered" /\ gw[1] = "text" /\ Incomplete(text[1], diffs[1])) =>
        ordered[1] = FallbackOrder(prev[1], diffs[1])

\* C9 amended: a text that names no input file makes orderDiffs return the
\* fallback order; a text that names some input file, also when it omits
\* others or names unknown paths, makes it return every input diff exactly
\* once (never the partial list), the named files first.
C9_IncompleteCompleted ==
    (pc[1] = "ordered" /\ gw[1] = "text" /\ Incomplete(text[1], diffs[1])) =>
        IF Mentioned(text[1], diffs[1]) = {}
        THEN ordered[1] = FallbackOrder(prev[1], diffs[1])
        ELSE /\ IsPermutation(ordered[1], diffs[1])
             /\ LET n == Cardinality(Mentioned(text[1], diffs[1]))
                IN  {ordered[1][i].file : i \in 1..n} = Mentioned(text[1], diffs[1])

C9_Witness ==
    /\ pc[1] = "ordered"
    /\ gw[1] = "text"
    /\ Incomplete(text[1], diffs[1])
    /\ Mentioned(text[1], diffs[1]) # {}
    /\ prev[1] = <<>>
    /\ ordered[1] # diffs[1]

\* the first line of the text that names f
FirstLine(t, f) == Min({i \in 1..Len(t) : Names(t[i]) = f})

\* o lists the named files by their first line in the text, then the
\* files the text does not name in input order
NamedFirst(o, t, d) ==
    /\ IsPermutation(o, d)
    /\ \A i, j \in 1..Len(o) :
          i < j =>
              LET fi == o[i].file
                  fj == o[j].file
              IN  IF fi \in Mentioned(t, d)
                  THEN fj \in Mentioned(t, d) => FirstLine(t, fi) < FirstLine(t, fj)
                  ELSE fj \notin Mentioned(t, d) /\ PosIn(d, fi) < PosIn(d, fj)

\* C10: with a text from the gateway, the result is the named input files
\* by first occurrence, then the unnamed diffs in input order; the
\* fallback when no input file is named.
C10_NamedThenRest ==
    (pc[1] = "ordered" /\ gw[1] = "text") =>
        /\ IF Mentioned(text[1], diffs[1]) = {}
           THEN ordered[1] = FallbackOrder(prev[1], diffs[1])
           ELSE NamedFirst(ordered[1], text[1], diffs[1])
        /\ (FilesOf(diffs[1]) = <<FileB, FileA>> /\ prev[1] = <<>>) =>
              /\ text[1] = <<FileA, FileB>> => FilesOf(ordered[1]) = <<FileA, FileB>>
              /\ text[1] = <<FileA>> => FilesOf(ordered[1]) = <<FileA, FileB>>
              /\ text[1] = <<FileC>> => FilesOf(ordered[1]) = <<FileB, FileA>>

C10_Witness ==
    /\ pc[1] = "ordered"
    /\ gw[1] = "text"
    /\ FilesOf(diffs[1]) = <<FileC, FileA, FileB>>
    /\ Len(text[1]) = 2
    /\ Names(text[1][1]) = FileB
    /\ Names(text[1][2]) = FileB
    /\ text[1][1] # text[1][2]
    /\ FilesOf(ordered[1]) = <<FileB, FileC, FileA>>

\* the signature row of a diff
Row(d) == <<d.file, safe(d.additions), safe(d.deletions), Len(d.before), Len(d.after)>>

\* the stored ordering holds the same files as the diff set, as many, with
\* equal rows
CacheHit(stored, d) ==
    /\ Len(stored) = Len(d)
    /\ FileSet(stored) = FileSet(d)
    /\ {Row(x) : x \in Range(stored)} = {Row(x) : x \in Range(d)}

\* both calls of orderDiffs have returned
BothReturned == pc[1] = "ordered" /\ pc[2] = "ordered"

\* C11 as stated: two successive orderDiffs calls with the same diff set and
\* the same stored ordering (read by both) return the same ordering, and the
\* second makes no gateway call.
C11_TwiceIdentical ==
    (/\ BothReturned
     /\ Len(diffs[1]) > 1 => (prev[1] = storage[sid[1]] /\ prev[2] = storage[sid[1]]))
        => (ordered[2] = ordered[1] /\ gw[2] = "none")

\* C11 amended: when the diff set has at most one entry, or both calls read
\* a stored ordering that holds the same files with equal signatures, both
\* calls return the same ordering and neither calls the gateway.
C11_TwiceOnCacheHit ==
    (/\ BothReturned
     /\ \/ Len(diffs[1]) <= 1
        \/ /\ CacheHit(storage[sid[1]], diffs[1])
           /\ prev[1] = storage[sid[1]]
           /\ prev[2] = storage[sid[1]])
        => /\ ordered[2] = ordered[1]
           /\ gw[1] = "none"
           /\ gw[2] = "none"

C11_Witness ==
    /\ BothReturned
    /\ Len(diffs[2]) = 3
    /\ CacheHit(storage[sid[2]], diffs[2])
    /\ prev[1] = storage[sid[1]]
    /\ prev[2] = storage[sid[2]]
    /\ ordered[2] = ordered[1]
    /\ ordered[2] # diffs[2]

\* C12: for a diff set of length 0 or 1, orderDiffs returns its input at
\* once: it never awaits the stored ordering, never registers a controller
\* or sets the timer, and never calls the gateway.
C12_TrivialReturnsInput ==
    \A p \in Inv :
        Len(diffs[p]) <= 1 =>
            /\ pc[p] \notin {"read", "model", "agent", "stream", "text"}
            /\ pc[p] = "ordered" =>
                  /\ ordered[p] = diffs[p]
                  /\ gw[p] = "none"
                  /\ timer[p] = "unset"
                  /\ aborts[sid[p]] # p
                  /\ prev[p] = <<>>

C12_Witness ==
    /\ pc[1] = "ordered"
    /\ Len(diffs[1]) = 1
    /\ ordered[1] = diffs[1]
    /\ storage[sid[1]] # <<>>

\* the call ended in a degraded way: no gateway call was made, the gateway
\* call failed or was timed out, or its text names no input file
Degraded(p) ==
    \/ gw[p] \in {"none", "nostream", "rejected"}
    \/ timer[p] = "fired"
    \/ gw[p] = "text" /\ Mentioned(text[p], diffs[p]) = {}

\* the text has a line that names no input file
Malformed(t, d) == \E i \in 1..Len(t) : Trim(t[i]) # <<>> /\ Names(t[i]) \notin FileSet(d)

\* orderDiffs has returned after its first await
OrderDiffsReturned(p) == pc[p] = "ordered" /\ Len(diffs[p]) >= 2

\* orderDiffs throws in this step
OrderDiffsThrows(p) == pc[p] \in {"read", "model", "agent", "stream", "text"} /\ pc'[p] = "failed"

\* C15 as stated: orderDiffs does not throw on a failed read, a failed model
\* resolution, a failed or timed out gateway call or a malformed text, and
\* each of these (a text with a line that names no input file included)
\* ends with the fallback order.
C15_MalformedFallsBack ==
    [][/\ OrderDiffsThrows(1) => pc[1] = "agent"
       /\ (OrderDiffsReturned(1) /\ (Degraded(1) \/ Malformed(text[1], diffs[1])))
             => ordered[1] = FallbackOrder(prev[1], diffs[1])]_vars

\* C15 amended: orderDiffs throws only when Agent.get rejects; a failed read
\* is an empty previous ordering; without a model, with a failed or timed
\* out gateway call, or with a text that names no input file, it returns the
\* fallback order.
C15_DegradedFallsBack ==
    [][/\ OrderDiffsThrows(1) => pc[1] = "agent"
       /\ (pc[1] = "read" /\ pc'[1] # "read") => prev'[1] \in {storage[sid[1]], <<>>}
       /\ (OrderDiffsReturned(1) /\ Degraded(1))
             => ordered[1] = FallbackOrder(prev[1], diffs[1])]_vars

C15_Witness ==
    /\ pc[1] = "ordered"
    /\ gw[1] = "text"
    /\ Malformed(text[1], diffs[1])
    /\ Mentioned(text[1], diffs[1]) = {}
    /\ prev[1] # <<>>
    /\ ordered[1] # diffs[1]
    /\ ordered[1] = FallbackOrder(prev[1], diffs[1])

\* C20: when the stored ordering read holds exactly the files of the current
\* diffs, as many, with equal signature rows, orderDiffs returns the current
\* diffs in the stored order, with no controller, no timer and no gateway
\* call.
C20_CacheHitReturnsStoredOrder ==
    \A p \in Inv :
        (pc[p] = "ordered" /\ Len(diffs[p]) >= 2 /\ CacheHit(prev[p], diffs[p])) =>
            /\ FilesOf(ordered[p]) = FilesOf(prev[p])
            /\ Range(ordered[p]) = Range(diffs[p])
            /\ gw[p] = "none"
            /\ timer[p] = "unset"
            /\ aborts[sid[p]] # p

C20_Witness ==
    /\ pc[1] = "ordered"
    /\ CacheHit(prev[1], diffs[1])
    /\ Len(diffs[1]) = 2
    /\ ordered[1] # prev[1]
    /\ ordered[1] # diffs[1]
    /\ FilesOf(ordered[1]) = FilesOf(prev[1])

\* C16: when Storage.write rejects, the invocation ends rejected in that
\* step, with the stored ordering and the published event left as they
\* were; it never runs again, so the write is not retried and no event of
\* that invocation follows.
C16_WriteFailurePropagates ==
    [][\A p \in Inv :
          /\ (pc[p] = "write" /\ pc'[p] # "write") =>
                \/ pc'[p] = "written" /\ storage'[sid[p]] = ordered[p]
                \/ pc'[p] = "failed" /\ UNCHANGED <<storage, event, writer>>
          /\ pc[p] = "failed" =>
                /\ pc'[p] = "failed"
                /\ \A s \in Sessions : writer'[s].event = p => writer[s].event = p]_vars

C16_Witness ==
    \E p \in Inv :
        /\ pc[p] = "failed"
        /\ writer[sid[p]].summary = p
        /\ writer[sid[p]].storage # p
        /\ writer[sid[p]].event # p
        /\ summary[sid[p]] # NoSummary

\* no summarization of the session is in progress
Quiet(s) == \A p \in Inv : sid[p] = s => pc[p] \in {"idle", "done", "failed"}

\* the aggregate of a persisted ordering, non-finite counts taken as 0
Totals(o) ==
    [additions |-> SeqSum([i \in 1..Len(o) |-> IF o[i].additions = NaN THEN 0 ELSE o[i].additions]),
     deletions |-> SeqSum([i \in 1..Len(o) |-> IF o[i].deletions = NaN THEN 0 ELSE o[i].deletions]),
     files |-> Len(o)]

\* C18: whenever no summarization of a session is in progress, the session
\* record's summary is the aggregate of the session's persisted ordering.
C18_SummaryAgreesWithStored ==
    \A s \in Sessions : Quiet(s) => summary[s] = Totals(storage[s])

\* the parts of a history in message order, then part order, as
\* <<message index, part index>>
Places(ms) == UNION {{<<i, j>> : j \in 1..Len(ms[i].parts)} : i \in 1..Len(ms)}

\* the places of the parts of the type that carry a snapshot
PartsAt(ms, type) ==
    {pl \in Places(ms) :
        ms[pl[1]].parts[pl[2]].type = type /\ ms[pl[1]].parts[pl[2]].snapshot # ""}

Before(a, b) == a[1] < b[1] \/ (a[1] = b[1] /\ a[2] < b[2])

\* the snapshot of the earliest step-start part that carries one
EarliestStart(ms) ==
    LET S == PartsAt(ms, "step-start")
        e == CHOOSE a \in S : \A b \in S : a = b \/ Before(a, b)
    IN  IF S = {} THEN "" ELSE ms[e[1]].parts[e[2]].snapshot

\* the snapshot of the latest step-finish part that carries one
LatestFinish(ms) ==
    LET S == PartsAt(ms, "step-finish")
        e == CHOOSE a \in S : \A b \in S : a = b \/ Before(b, a)
    IN  IF S = {} THEN "" ELSE ms[e[1]].parts[e[2]].snapshot

\* C19: computeDiff calls Snapshot.diffFull with the snapshot of the
\* earliest step-start part and that of the latest step-finish part that
\* carry one, and does not call it (the diff set is empty) when either is
\* missing.
C19_EarliestToLatest ==
    \A p \in Inv :
        pc[p] = "diff" =>
            IF EarliestStart(messages[p]) = "" \/ LatestFinish(messages[p]) = ""
            THEN snap[p] = <<>>
            ELSE snap[p] = <<EarliestStart(messages[p]), LatestFinish(messages[p])>>

\* summarizeMessage awaits a model resolution or a gateway call of the
\* title or body generation
GenerationAwait(p) ==
    mpc[p][1] \in {"title", "body"} /\ mpc[p][2] \in {"model", "stream", "text"}

\* C13: a failure of a model resolution or gateway call of the title or
\* body generation is caught: the step that ends such an await never makes
\* summarizeMessage (and with it summarize, by Promise.all) reject.
C13_GenerationFailureCaught ==
    [][\A p \in Inv :
          (GenerationAwait(p) /\ mpc'[p] # mpc[p]) => mpc'[p] # MFailed]_vars

\* the session-level sub-task is at an await
SessionActive(p) ==
    pc[p] \in {"diff", "read", "model", "agent", "stream", "text", "ordered", "update",
               "updated", "write", "written"}

\* the message-level sub-task is at an await
MessageActive(p) ==
    mpc[p][2] \in {"diff", "update", "small", "model", "agent", "stream", "text"}

\* a step of the session-level sub-task that does not reject
SessionStep(p) ==
    \/ computeDiffResolved(p, DiffFulls)
    \/ storageReadResolved(p)
    \/ sortModelResolved(p, AllOrNone)
    \/ agentGetResolved(p)
    \/ llmStreamResolved(p)
    \/ streamTextResolved(p, Texts)
    \/ orderDiffsReturned(p)
    \/ sessionUpdateApplied(p)
    \/ sessionUpdateResolved(p)
    \/ storageWriteApplied(p)
    \/ storageWriteResolved(p)

\* a step of the message-level sub-task that does not reject
MessageStep(p) ==
    \/ messageDiffResolved(p, SumDiffFulls)
    \/ updateMessageResolved(p)
    \/ getSmallModelResolved(p)
    \/ getModelResolved(p)
    \/ messageAgentResolved(p)
    \/ messageStreamResolved(p)
    \/ messageTextResolved(p, Results)

\* C14: the step in which one sub-task of a summarize call rejects leaves
\* the other sub-task where it was, and after it the other sub-task can
\* still take each of its steps, the session update, the write and the
\* publish (or the message update) included.
C14_SubTasksIndependent ==
    [][\A p \in Inv :
          /\ (mpc[p] # MFailed /\ mpc'[p] = MFailed) =>
                IF pc[p] = "fetch" THEN pc'[p] = "diff" ELSE UNCHANGED sessionvars
          /\ (pc[p] \notin {"fetch", "failed"} /\ pc'[p] = "failed") => UNCHANGED msgvars
          /\ (mpc[p] = MFailed /\ SessionActive(p)) => ENABLED SessionStep(p)
          /\ (pc[p] = "failed" /\ MessageActive(p)) => ENABLED MessageStep(p)]_vars

C14_Witness ==
    /\ mid[1] = "m1"
    /\ mpc[1] = MFailed
    /\ pc[1] = "done"
    /\ writer["s1"] = [storage |-> 1, summary |-> 1, event |-> 1]
    /\ Len(storage["s1"]) = 2
    /\ event["s1"] = storage["s1"]
    /\ summary["s1"] = Totals(storage["s1"])

\* C17: a diff query returns the session's persisted ordering (or the
\* empty sequence, also when the read fails) and changes nothing else:
\* tokens, registry, persisted orderings, session records, events and
\* messages are as they were.
C17_QueryReadsOnly ==
    [][answer' # answer =>
          /\ answer'.diff \in {storage[answer'.sessionID], <<>>}
          /\ UNCHANGED <<sessionvars, msgvars>>]_vars

C17_Witness ==
    /\ answer.sessionID = "s1"
    /\ answer.diff # <<>>
    /\ answer.diff = storage["s1"]
    /\ pc[1] = "written"
    /\ event["s1"] = <<>>
    /\ seq["s1"] = 1

\* the stored order reduced to the diffs still present: the current diff of
\* every stored file that is still there, in the stored order
Reduced(stored, d) ==
    LET kept == SelectSeq(stored, LAMBDA x : x.file \in FileSet(d))
    IN  [i \in 1..Len(kept) |-> d[PosIn(d, kept[i].file)]]

\* the reduction covers every current diff
Covers(stored, d) ==
    /\ Len(Reduced(stored, d)) = Len(d)
    /\ FileSet(Reduced(stored, d)) = FileSet(d)

\* C21: when the fast path is not taken, the fallback order orderDiffs
\* returns is the stored order reduced to the diffs still present whenever
\* the reduction covers every current diff (also when the stored order holds
\* files that are gone), and the raw input order otherwise.
C21_ReducedStoredOrder ==
    (OrderDiffsReturned(1) /\ Degraded(1) /\ ~CacheHit(prev[1], diffs[1])) =>
        ordered[1] = IF Covers(prev[1], diffs[1])
                     THEN Reduced(prev[1], diffs[1])
                     ELSE diffs[1]

\* C22: the gateway is called and a controller registered only for a history
\* with a user message and with a resolved model; without a user message or
\* without a model (a failing resolver counts as none) orderDiffs returns
\* the fallback order, no gateway call was made, no timer set and the
\* registry is as it was.
C22_GatewayNeedsUserAndModel ==
    [][\A p \in Inv :
          /\ (gw'[p] # "none" \/ (aborts'[sid[p]] = p /\ aborts[sid[p]] # p)) =>
                hasUser(messages[p]) /\ model[p] \in {"small", "full"}
          /\ (pc[p] \in {"read", "model"} /\ pc'[p] = "ordered") => aborts' = aborts
          /\ (pc[p] = "ordered" /\ (~hasUser(messages[p]) \/ model[p] = "none")) =>
                /\ ordered[p] = FallbackOrder(prev[p], diffs[p])
                /\ gw[p] = "none"
                /\ timer[p] = "unset"
                /\ aborts[sid[p]] # p]_vars

C22_Witness ==
    /\ pc[1] = "ordered"
    /\ hasUser(messages[1])
    /\ model[1] = "none"
    /\ gw[1] = "none"
    /\ ~CacheHit(prev[1], diffs[1])
    /\ ordered[1] # diffs[1]
    /\ ordered[1] = FallbackOrder(prev[1], diffs[1])

\* Summarize(p, ..) is enabled only once p - 1 has been issued: the
\* invocations are numbered in the order in which they were issued.
IssuedBefore(p, q) == p < q /\ pc[q] # "idle"

\* the invocation has captured its version
Captured(p) == version[p] > 0

\* C23: of two summarize calls issued for the same session, the one issued
\* later captures the strictly higher version.
C23_VersionsInIssueOrder ==
    \A p, q \in Inv :
        (IssuedBefore(p, q) /\ sid[p] = sid[q] /\ Captured(p) /\ Captured(q)) =>
            version[p] < version[q]

\* p's summarizeSession is invoked in this step
Invoked(p) == pc[p] = "fetch" /\ pc'[p] = "diff"

\* C24: a session's token never decreases; each summarizeSession invocation
\* advances it by exactly 1 and captures the advanced value, nothing else
\* changes it, a captured version is never changed, and so no two
\* invocations of a session hold the same version.
C24_TokenAdvancesByOne ==
    [][/\ \A s \in Sessions :
             /\ seq'[s] \in {seq[s], seq[s] + 1}
             /\ seq'[s] # seq[s] => \E p \in Inv : Invoked(p) /\ sid[p] = s
       /\ \A p \in Inv :
             /\ Invoked(p) =>
                   /\ seq'[sid[p]] = seq[sid[p]] + 1
                   /\ version'[p] = seq'[sid[p]]
                   /\ \A q \in Inv \ {p} :
                         (sid[q] = sid[p] /\ Captured(q)) => version[q] # version'[p]
             /\ version'[p] # version[p] => Invoked(p)]_vars

C24_Witness ==
    /\ sid[1] = sid[2]
    /\ version[2] = 1
    /\ version[1] = 2
    /\ seq[sid[1]] = 2
    /\ pc[2] = "done"
    /\ pc[1] = "done"

\* title generation starts in this step of p's summarizeMessage
TitleGenerationStarts(p) == mpc[p][1] # "title" /\ mpc'[p][1] = "title"

\* C25: title generation starts only for a target without a title and with
\* a non-synthetic text part, and the stored title of a message that has one
\* is never changed by any step of any summarize call.
C25_TitleKept ==
    [][/\ \A p \in Inv :
             TitleGenerationStarts(p) =>
                msum[p].title = "" /\ hasTextPart(mmsgs[p], mid[p])
       /\ \A m \in StoredIDs :
             mstore[m].title # "" => mstore'[m].title = mstore[m].title]_vars

\* p's ordering call finishes in this step (success, failure or timeout):
\* clean runs
Finishes(p) == pc[p] \in {"stream", "text"} /\ pc'[p] = "ordered"

\* C27: an ordering call that finishes removes the session's registry entry
\* only if it is the controller it registered itself; neither it nor its
\* timer removes or triggers the controller of another invocation.
C27_CleanOnlyOwnHandle ==
    [][\A p \in Inv :
          /\ Finishes(p) =>
                /\ \A s \in Sessions : aborts'[s] = IF aborts[s] = p THEN None ELSE aborts[s]
                /\ \A q \in Inv \ {p} : abortedBy'[q] = abortedBy[q]
          /\ (timer[p] = "armed" /\ timer'[p] = "fired") =>
                /\ aborts' = aborts
                /\ \A q \in Inv \ {p} : abortedBy'[q] = abortedBy[q]]_vars

C27_Witness ==
    /\ pc[1] = "ordered"
    /\ gw[1] # "none"
    /\ sid[2] = sid[1]
    /\ aborts[sid[1]] = 2
    /\ pc[2] \in {"stream", "text"}
    /\ ~aborted(2)

\* q's summarizeSession triggers the controller p registered
CancelsManually(q, p) == Invoked(q) /\ aborts[sid[q]] = p

\* C28: the step in which a newer summarizeSession triggers an invocation's
\* controller also advances the token past that invocation's version, while
\* the invocation is still inside its gateway call; a manually cancelled
\* invocation is stale, passes no staleness check and takes no step that
\* updates the session record, writes the ordering or publishes. (An
\* invocation cancelled by its own timer alone is not stale and may commit.)
C28_ManualCancelNeverCommits ==
    [][\A p \in Inv :
          /\ \A q \in Inv \ {p} :
                CancelsManually(q, p) =>
                    /\ pc[p] \in {"stream", "text"}
                    /\ abortedBy'[p] # "none"
                    /\ seq'[sid[p]] # version[p]
          /\ abortedBy[p] = "manual" =>
                /\ seq[sid[p]] # version[p]
                /\ pc[p] \in {"stream", "text", "ordered"}
                /\ ~Commits(p)
          /\ (pc[p] = "ordered" /\ pc'[p] = "update") => seq[sid[p]] = version[p]]_vars

C28_Witness ==
    /\ abortedBy[1] = "manual"
    /\ pc[1] = "ordered"
    /\ sid[2] = sid[1]
    /\ abortedBy[2] = "timer"
    /\ pc[2] = "written"
    /\ writer[sid[2]].storage = 2
    /\ Len(storage[sid[2]]) = 2

\* p's Storage.write changes the stored ordering in this step
Writes(p) == pc[p] = "write" /\ pc'[p] = "written"

\* C29: the stored ordering of a session changes only when an invocation's
\* Storage.write is applied, and what is then stored holds every diff of the
\* diff set that invocation computed exactly once, with pairwise distinct
\* files; a stored ordering never holds a file twice.
C29_StoredIsPermutation ==
    [][/\ \A s \in Sessions :
             /\ DistinctFiles(storage[s])
             /\ storage'[s] # storage[s] => \E p \in Inv : Writes(p) /\ sid[p] = s
       /\ \A p \in Inv :
             Writes(p) =>
                /\ DistinctFiles(diffs[p])
                /\ Len(storage'[sid[p]]) = Len(diffs[p])
                /\ Range(storage'[sid[p]]) = Range(diffs[p])
                /\ \A i, j \in 1..Len(diffs[p]) :
                      storage'[sid[p]][i].file = storage'[sid[p]][j].file => i = j]_vars

C29_Witness ==
    /\ sid[1] = sid[2]
    /\ pc[1] = "written"
    /\ writer[sid[1]].storage = 1
    /\ seq[sid[1]] = 2
    /\ version[1] = 1
    /\ pc[2] = "write"
    /\ FilesOf(storage[sid[1]]) = <<FileA, FileB>>
    /\ FilesOf(diffs[1]) = <<FileB, FileA>>
    /\ Len(diffs[2]) = 1

\* p awaits the gateway
InGateway(p) == pc[p] \in {"stream", "text"}

\* summarizeSession has been invoked for p and has neither returned nor
\* rejected
Running(p) == Started(p) /\ pc[p] \notin {"done", "failed"}

\* C26: every gateway ordering call that was started ends (it completes, or
\* its controller is triggered by a newer request or by the 8 s timer and
\* the gateway honours that), so orderDiffs returns, and every
\* summarizeSession invocation returns or rejects.
C26_OrderingEnds ==
    \A p \in Inv :
        /\ InGateway(p) ~> (pc[p] = "ordered")
        /\ Running(p) ~> (pc[p] \in {"done", "failed"})

C26_Witness ==
    /\ pc[1] = "ordered"
    /\ gw[1] = "rejected"
    /\ timer[1] = "fired"
    /\ abortedBy[1] = "timer"
    /\ pc[2] = "text"
    /\ abortedBy[2] = "none"
    /\ timer[2] = "armed"

\* o's Bun.write replaces the file in this step
AuthWrites(o) == apc[o] = "write" /\ apc'[o] = "chmod"

\* what a finished call leaves under its key
Effect(o) == IF aop[o] = "set" THEN ainfo[o] ELSE Absent

\* C30: a set or remove whose read of auth.json succeeded leaves every other
\* key's valid credential as it was, also when calls on different keys
\* overlap; once two such calls on different keys have both returned, the
\* file holds the effect of both.
C30_BothEffectsKept ==
    [][\A o \in AuthOps :
          /\ (AuthWrites(o) /\ aread[o] = "ok") =>
                \A k \in AuthKeys \ {akey[o]} :
                    valid(authFile[k]) => authFile'[k] = authFile[k]
          /\ \A n \in AuthOps \ {o} :
                (/\ apc'[o] = "done"
                 /\ apc'[n] = "done"
                 /\ aread[o] = "ok"
                 /\ aread[n] = "ok"
                 /\ akey[o] # akey[n]) =>
                    /\ authFile'[akey[o]] = Effect(o)
                    /\ authFile'[akey[n]] = Effect(n)]_vars

====
